---------------------------- MODULE Spec2Model ----------------------------
(***************************************************************************)
(* Character-level encoding pipeline of bin/lib.py: the legal character   *)
(* set, the two lazily cached vocabularies (CHAR_INDICES, INDICES_CHAR),   *)
(* and gen_x_y (cleaning, sentinel wrapping, index lookup, padding and     *)
(* label vectorisation).                                                   *)
(*                                                                         *)
(* A character is its code point; a string is a sequence of code points.   *)
(*   9 = TAB, 10 = LF, 11 = VT, 12 = FF, 13 = CR, 32 = ' ', 60 = '<',      *)
(*   62 = '>', 65 = 'A', 97 = 'a', 200 = a non-ASCII character.            *)
(***************************************************************************)
EXTENDS Integers, Sequences, FiniteSets

VARIABLES
    CHAR_INDICES,          \* module global, lib.py:18 (None until built)
    INDICES_CHAR,          \* module global, lib.py:19 (None until built)
    CONFS,                 \* loaded configuration, lib.py:15 (key x_maxlen)
    uncleaned_text,        \* argument of gen_x_y: the batch of raw texts
    y_list,                \* argument of gen_x_y: the raw labels (or None)
    cleaned_text_chars,    \* local of gen_x_y, lib.py:167
    cleaned_text_indices,  \* local of gen_x_y, lib.py:168
    x,                     \* first component of gen_x_y's result
    y,                     \* second component of gen_x_y's result
    status,                \* "start", then how the last gen_x_y call ended
    pc,                    \* per thread: position in the code
    op,                    \* per thread: the function the thread called
    frame,                 \* per thread: gen_x_y's locals char_indices, indices_char
    builds,                \* per global: number of build-and-assign executions
    returned               \* per accessor: the set of mappings it has returned

vars == <<CHAR_INDICES, INDICES_CHAR, CONFS, uncleaned_text, y_list,
          cleaned_text_chars, cleaned_text_indices, x, y, status,
          pc, op, frame, builds, returned>>

-----------------------------------------------------------------------------
(* Bounds of the model *)

\* longest raw text of a one-record batch
MaxLen == 3
\* largest number of records in a batch
MaxBatch == 2
\* longest label list
MaxLabels == 2
\* largest configured x_maxlen
MaxWidth == 3
\* number of concurrent callers
NThreads == 2

\* characters raw texts are drawn from: TAB, ' ', '<', '>', 'A', non-ASCII
InputChars == {9, 32, 60, 62, 65, 200}

\* raw label values (truthy and falsy)
Labels == {0, 1}

\* records used for the batches of more than one record: "", "<A", "A A"
SampleTexts == {<<>>, <<60, 65>>, <<65, 32, 65>>}

SeqsUpTo(S, n) == UNION {[1..k -> S] : k \in 0..n}

Texts == SeqsUpTo(InputChars, MaxLen)

Batches == {<<t>> : t \in Texts} \cup SeqsUpTo(SampleTexts, MaxBatch)

Threads == 1..NThreads

-----------------------------------------------------------------------------
(* Python values *)

\* None for the cached globals and for gen_x_y's locals holding them
None == <<>>

IsNone(v) == DOMAIN v = {}

\* y_list is either None or a list
NoneList == [none |-> TRUE, items |-> <<>>]

List(items) == [none |-> FALSE, items |-> items]

LabelLists == {NoneList} \cup {List(l) : l \in SeqsUpTo(Labels, MaxLabels)}

-----------------------------------------------------------------------------
(* legal_characters and the vocabularies, lib.py:140-158 *)

\* string.digits + string.ascii_letters + string.punctuation + string.whitespace
string_printable ==
    (48..57) \cup (97..122) \cup (65..90)
    \cup (33..47) \cup (58..64) \cup (91..96) \cup (123..126)
    \cup {32, 9, 10, 13, 11, 12}

\* set(string.printable + '<>') with '\n' and '\r' removed
legal_characters == ((string_printable \cup {60, 62}) \ {10}) \ {13}

\* sorted(list(S)): the elements of S in increasing code-point order
RECURSIVE sorted(_)
sorted(S) ==
    IF S = {} THEN <<>>
    ELSE LET m == CHOOSE a \in S : \A b \in S : a <= b
         IN  <<m>> \o sorted(S \ {m})

\* chars = sorted(list(set(legal_characters())))
chars == sorted(legal_characters)

\* enumerate(chars): the pairs (i, c), i counted from 0
enumerate(s) == {<<i - 1, s[i]>> : i \in 1..Len(s)}

\* dict(pairs): the mapping with one entry per (key, value) pair
dict(pairs) ==
    [k \in {p[1] : p \in pairs} |-> (CHOOSE p \in pairs : p[1] = k)[2]]

\* dict((c, i) for i, c in enumerate(chars))
BuildCharIndices == dict({<<p[2], p[1]>> : p \in enumerate(chars)})

\* variant: the indices counted from 1, as enumerate(chars, 1) would
BuildIndicesChar_FromOne == dict({<<p[1] + 1, p[2]>> : p \in enumerate(chars)})

\* dict((i, c) for i, c in enumerate(chars))
BuildIndicesChar == dict({<<p[1], p[2]>> : p \in enumerate(chars)})

\* max(indices_char.keys())
MaxKey(d) == CHOOSE k \in DOMAIN d : \A j \in DOMAIN d : j <= k

-----------------------------------------------------------------------------
(* The cleaning steps of gen_x_y, lib.py:173-182 *)

\* str.lower on one character: 'A'..'Z' map to 'a'..'z', all else is kept
lower(c) == IF c \in 65..90 THEN c + 32 ELSE c

\* characters matched by \s and removed by str.strip()
Whitespace == {9, 10, 11, 12, 13, 32}

\* text = map(lambda x: x.lower(), text)
LowerAll(text) == [i \in 1..Len(text) |-> lower(text[i])]

\* variant: characters outside the legal set are kept
Legalize_Keep(text) == text

\* text = map(lambda x: x if x in legal_characters() else ' ', text)
Legalize(text) ==
    [i \in 1..Len(text) |-> IF text[i] \in legal_characters THEN text[i] ELSE 32]

RECURSIVE DropSpace(_)
DropSpace(text) ==
    IF text # <<>> /\ Head(text) \in Whitespace THEN DropSpace(Tail(text))
    ELSE text

\* re.sub(r'\s+', ' ', text): every maximal whitespace run becomes one ' '
RECURSIVE Collapse(_)
Collapse(text) ==
    IF text = <<>> THEN <<>>
    ELSE IF Head(text) \in Whitespace
         THEN <<32>> \o Collapse(DropSpace(text))
         ELSE <<Head(text)>> \o Collapse(Tail(text))

RECURSIVE DropSpaceEnd(_)
DropSpaceEnd(text) ==
    IF text # <<>> /\ text[Len(text)] \in Whitespace
    THEN DropSpaceEnd(SubSeq(text, 1, Len(text) - 1))
    ELSE text

\* text.strip()
Strip(text) == DropSpaceEnd(DropSpace(text))

\* re.sub(c, ' ', text) for a one-character pattern c
SubWithSpace(c, text) ==
    [i \in 1..Len(text) |-> IF text[i] = c THEN 32 ELSE text[i]]

\* variant: only '<' is replaced, the line for '>' left out
ReplaceSentinels_OnlyStart(text) == SubWithSpace(60, text)

\* variant: '<' and '>' are deleted instead of replaced by a space
ReplaceSentinels_Delete(text) == SelectSeq(text, LAMBDA c : c \notin {60, 62})

\* text = re.sub('<', ' ', text); text = re.sub('>', ' ', text)
ReplaceSentinels(text) == SubWithSpace(62, SubWithSpace(60, text))

\* text = '<' + text + '>'
Wrap(text) == <<60>> \o text \o <<62>>

\* one pass of the loop body up to cleaned_text_chars.append(text)
Clean(text) ==
    Wrap(ReplaceSentinels(Strip(Collapse(Legalize(LowerAll(text))))))

-----------------------------------------------------------------------------
(* Index lookup, padding and label vectorisation, lib.py:187-193 *)

\* the characters of text that char_indices[x] raises KeyError for
MissingKeys(char_indices, text) ==
    {i \in 1..Len(text) : text[i] \notin DOMAIN char_indices}

\* text_indices = map(lambda x: char_indices[x], text)
text_indices(char_indices, text) ==
    [i \in 1..Len(text) |-> char_indices[text[i]]]

\* variant: the + 1 left out, so the padding value is the largest index
PaddingValue_MaxKey(indices_char) == MaxKey(indices_char)

\* value = max(indices_char.keys()) + 1
PaddingValue(indices_char) == MaxKey(indices_char) + 1

\* s[-maxlen:] for maxlen >= 1: the last maxlen elements, or all of s
LastElements(s, maxlen) ==
    IF Len(s) <= maxlen THEN s ELSE SubSeq(s, Len(s) - maxlen + 1, Len(s))

\* one row of pad_sequences with its defaults padding='pre', truncating='pre':
\* the row is filled with value, then x[idx, -len(trunc):] = trunc
PadRow(s, maxlen, value) ==
    LET trunc == LastElements(s, maxlen)
    IN  [j \in 1..maxlen |->
            IF j <= maxlen - Len(trunc) THEN value
            ELSE trunc[j - (maxlen - Len(trunc))]]

\* variant: the call made with truncating='post', keeping the first maxlen
pad_sequences_TruncPost(sequences, maxlen, value) ==
    [shape |-> <<Len(sequences), maxlen>>,
     data  |-> [i \in 1..Len(sequences) |->
                   LET s == sequences[i]
                   IN  PadRow(IF Len(s) <= maxlen THEN s ELSE SubSeq(s, 1, maxlen),
                              maxlen, value)]]

\* pad_sequences(sequences, maxlen=maxlen, value=value): an int array of
\* shape (len(sequences), maxlen)
pad_sequences(sequences, maxlen, value) ==
    [shape |-> <<Len(sequences), maxlen>>,
     data  |-> [i \in 1..Len(sequences) |-> PadRow(sequences[i], maxlen, value)]]

\* bool(v) for a raw label
truthy(v) == v # 0

\* numpy.array(y_list, dtype=bool): a vector for a list, a 0-d array for None
numpy_array_bool(labels) ==
    IF labels.none
    THEN [ndim |-> 0, data |-> <<FALSE>>]
    ELSE [ndim |-> 1,
          data |-> [i \in 1..Len(labels.items) |-> truthy(labels.items[i])]]

\* get_conf(conf_name) == load_confs()[conf_name]
get_conf(conf_name) == CONFS[conf_name]

\* the array values before gen_x_y has returned any
NoArray == [shape |-> <<0, 0>>, data |-> <<>>]

NoVector == [ndim |-> 1, data |-> <<>>]

-----------------------------------------------------------------------------
(* gen_x_y after its two accessor calls, lib.py:167-195 *)

\* the loop of lib.py:170-189 and the conversion of lib.py:192-195, run with
\* the locals char_indices and indices_char
GenXYBody(char_indices, indices_char) ==
    LET n       == Len(uncleaned_text)
        cleaned == [i \in 1..n |-> Clean(uncleaned_text[i])]
        bad     == {i \in 1..n : MissingKeys(char_indices, cleaned[i]) # {}}
    IN  IF bad # {}
        THEN \* char_indices[x] raises in the first such iteration, after the
             \* append of lib.py:185
             LET k == CHOOSE i \in bad : \A j \in bad : i <= j
             IN  /\ cleaned_text_chars' = SubSeq(cleaned, 1, k)
                 /\ cleaned_text_indices' =
                        [i \in 1..(k - 1) |-> text_indices(char_indices, cleaned[i])]
                 /\ status' = "KeyError"
                 /\ UNCHANGED <<x, y>>
        ELSE /\ cleaned_text_chars' = cleaned
             /\ cleaned_text_indices' =
                    [i \in 1..n |-> text_indices(char_indices, cleaned[i])]
             /\ x' = pad_sequences(cleaned_text_indices', get_conf("x_maxlen"),
                                   PaddingValue(indices_char))
             /\ y' = numpy_array_bool(y_list)
             /\ status' = "returned"

\* value of a cached global after `if G is None: G = build`
Cached(global, build) == IF IsNone(global) THEN build ELSE global

\* gen_x_y run to completion by a single caller
gen_x_y ==
    /\ status = "start"
    /\ CHAR_INDICES' = Cached(CHAR_INDICES, BuildCharIndices)
    /\ INDICES_CHAR' = Cached(INDICES_CHAR, BuildIndicesChar)
    /\ builds' = [CHAR_INDICES |->
                     builds.CHAR_INDICES + (IF IsNone(CHAR_INDICES) THEN 1 ELSE 0),
                  INDICES_CHAR |->
                     builds.INDICES_CHAR + (IF IsNone(INDICES_CHAR) THEN 1 ELSE 0)]
    /\ returned' = [get_char_indices |->
                       returned.get_char_indices \cup {CHAR_INDICES'},
                    get_indices_char |->
                       returned.get_indices_char \cup {INDICES_CHAR'}]
    /\ GenXYBody(CHAR_INDICES', INDICES_CHAR')
    /\ UNCHANGED <<CONFS, uncleaned_text, y_list, pc, op, frame>>

\* state after import: both caches unset, no call made
InitGlobals ==
    /\ CHAR_INDICES = None
    /\ INDICES_CHAR = None
    /\ cleaned_text_chars = <<>>
    /\ cleaned_text_indices = <<>>
    /\ x = NoArray
    /\ y = NoVector
    /\ status = "start"
    /\ pc = [t \in Threads |-> "idle"]
    /\ op = [t \in Threads |-> "none"]
    /\ frame = [t \in Threads |-> [char_indices |-> None, indices_char |-> None]]
    /\ builds = [CHAR_INDICES |-> 0, INDICES_CHAR |-> 0]
    /\ returned = [get_char_indices |-> {}, get_indices_char |-> {}]

\* one call of gen_x_y on any batch, label list and configured width
Init ==
    /\ InitGlobals
    /\ uncleaned_text \in Batches
    /\ y_list \in LabelLists
    /\ CONFS \in {[x_maxlen |-> L] : L \in 1..MaxWidth}

Next == gen_x_y

Spec == Init /\ [][Next]_vars

-----------------------------------------------------------------------------
(* The same functions called from several threads.  A thread switch can    *)
(* happen between the test of a global, its assignment and the read of the *)
(* return statement; the module takes no lock.                             *)

Ops == {"get_char_indices", "get_indices_char", "gen_x_y"}

\* a thread calls one of the three functions; gen_x_y starts with its call
\* of get_char_indices (lib.py:165)
Call(t) ==
    /\ pc[t] = "idle"
    /\ \E f \in Ops :
          /\ op' = [op EXCEPT ![t] = f]
          /\ pc' = [pc EXCEPT ![t] =
                       IF f = "get_indices_char" THEN "ic_test" ELSE "ci_test"]
    /\ UNCHANGED <<CHAR_INDICES, INDICES_CHAR, CONFS, uncleaned_text, y_list,
                   cleaned_text_chars, cleaned_text_indices, x, y, status,
                   frame, builds, returned>>

\* get_char_indices, `if CHAR_INDICES is None:` (lib.py:148)
CharIndicesTest(t) ==
    /\ pc[t] = "ci_test"
    /\ pc' = [pc EXCEPT ![t] =
                 IF IsNone(CHAR_INDICES) THEN "ci_build" ELSE "ci_return"]
    /\ UNCHANGED <<CHAR_INDICES, INDICES_CHAR, CONFS, uncleaned_text, y_list,
                   cleaned_text_chars, cleaned_text_indices, x, y, status,
                   op, frame, builds, returned>>

\* get_char_indices, build and assign (lib.py:149-150)
CharIndicesBuild(t) ==
    /\ pc[t] = "ci_build"
    /\ CHAR_INDICES' = BuildCharIndices
    /\ builds' = [builds EXCEPT !.CHAR_INDICES = @ + 1]
    /\ pc' = [pc EXCEPT ![t] = "ci_return"]
    /\ UNCHANGED <<INDICES_CHAR, CONFS, uncleaned_text, y_list,
                   cleaned_text_chars, cleaned_text_indices, x, y, status,
                   op, frame, returned>>

\* get_char_indices, `return CHAR_INDICES` (lib.py:151); inside gen_x_y the
\* value is bound to char_indices and get_indices_char is called (lib.py:165-166)
CharIndicesReturn(t) ==
    /\ pc[t] = "ci_return"
    /\ returned' = [returned EXCEPT !.get_char_indices = @ \cup {CHAR_INDICES}]
    /\ IF op[t] = "gen_x_y"
       THEN /\ frame' = [frame EXCEPT ![t].char_indices = CHAR_INDICES]
            /\ pc' = [pc EXCEPT ![t] = "ic_test"]
       ELSE /\ pc' = [pc EXCEPT ![t] = "idle"]
            /\ UNCHANGED frame
    /\ UNCHANGED <<CHAR_INDICES, INDICES_CHAR, CONFS, uncleaned_text, y_list,
                   cleaned_text_chars, cleaned_text_indices, x, y, status,
                   op, builds>>

\* get_indices_char, `if INDICES_CHAR is None:` (lib.py:155)
IndicesCharTest(t) ==
    /\ pc[t] = "ic_test"
    /\ pc' = [pc EXCEPT ![t] =
                 IF IsNone(INDICES_CHAR) THEN "ic_build" ELSE "ic_return"]
    /\ UNCHANGED <<CHAR_INDICES, INDICES_CHAR, CONFS, uncleaned_text, y_list,
                   cleaned_text_chars, cleaned_text_indices, x, y, status,
                   op, frame, builds, returned>>

\* get_indices_char, build and assign (lib.py:156-157)
IndicesCharBuild(t) ==
    /\ pc[t] = "ic_build"
    /\ INDICES_CHAR' = BuildIndicesChar
    /\ builds' = [builds EXCEPT !.INDICES_CHAR = @ + 1]
    /\ pc' = [pc EXCEPT ![t] = "ic_return"]
    /\ UNCHANGED <<CHAR_INDICES, CONFS, uncleaned_text, y_list,
                   cleaned_text_chars, cleaned_text_indices, x, y, status,
                   op, frame, returned>>

\* get_indices_char, `return INDICES_CHAR` (lib.py:158); inside gen_x_y the
\* value is bound to indices_char and the loop follows (lib.py:166-170)
IndicesCharReturn(t) ==
    /\ pc[t] = "ic_return"
    /\ returned' = [returned EXCEPT !.get_indices_char = @ \cup {INDICES_CHAR}]
    /\ IF op[t] = "gen_x_y"
       THEN /\ frame' = [frame EXCEPT ![t].indices_char = INDICES_CHAR]
            /\ pc' = [pc EXCEPT ![t] = "body"]
       ELSE /\ pc' = [pc EXCEPT ![t] = "idle"]
            /\ UNCHANGED frame
    /\ UNCHANGED <<CHAR_INDICES, INDICES_CHAR, CONFS, uncleaned_text, y_list,
                   cleaned_text_chars, cleaned_text_indices, x, y, status,
                   op, builds>>

\* gen_x_y from its loop to its return (lib.py:167-195), on the thread's locals
GenXYRun(t) ==
    /\ pc[t] = "body"
    /\ GenXYBody(frame[t].char_indices, frame[t].indices_char)
    /\ pc' = [pc EXCEPT ![t] = "idle"]
    /\ frame' = [frame EXCEPT ![t] = [char_indices |-> None, indices_char |-> None]]
    /\ UNCHANGED <<CHAR_INDICES, INDICES_CHAR, CONFS, uncleaned_text, y_list,
                   op, builds, returned>>

\* the batches the threads encode: one record each
ThreadBatches == {<<t>> : t \in SampleTexts}

InitThreads ==
    /\ InitGlobals
    /\ uncleaned_text \in ThreadBatches
    /\ y_list = List([i \in 1..Len(uncleaned_text) |-> 1])
    /\ CONFS = [x_maxlen |-> MaxWidth]

NextThreads ==
    \E t \in Threads :
        \/ Call(t)
        \/ CharIndicesTest(t)
        \/ CharIndicesBuild(t)
        \/ CharIndicesReturn(t)
        \/ IndicesCharTest(t)
        \/ IndicesCharBuild(t)
        \/ IndicesCharReturn(t)
        \/ GenXYRun(t)

SpecThreads == InitThreads /\ [][NextThreads]_vars

-----------------------------------------------------------------------------
(* Properties *)

\* number of records of the batch
N == Len(uncleaned_text)

\* the configured width
L == CONFS["x_maxlen"]

\* the characters strictly between the two sentinels of a cleaned text
Body(n) == SubSeq(n, 2, Len(n) - 1)

Contains(text, c) == \E j \in 1..Len(text) : text[j] = c

\* C1: every cleaned text of the batch starts with '<', ends with '>' and
\* has no other '<' or '>', also when the raw text contains '<' or '>'.
C1_SentinelPlacement ==
    status = "returned" =>
        /\ Len(cleaned_text_chars) = N
        /\ \A i \in 1..N :
              LET n == cleaned_text_chars[i]
              IN  /\ Len(n) >= 2
                  /\ n[1] = 60
                  /\ n[Len(n)] = 62
                  /\ \A j \in 2..(Len(n) - 1) : n[j] \notin {60, 62}

\* a raw text holding '<', '>' and a letter has been cleaned
C1_Witness ==
    /\ status = "returned"
    /\ \E i \in 1..N :
          /\ Contains(uncleaned_text[i], 60)
          /\ Contains(uncleaned_text[i], 62)
          /\ Contains(uncleaned_text[i], 65)

\* C2: row i of x is the index sequence s of cleaned text i, pre-truncated
\* to its last L elements or pre-padded with L - len(s) copies of the
\* vocabulary size (largest index + 1).
C2_PrePadPreTruncate ==
    status = "returned" =>
        /\ Len(x.data) = N
        /\ \A i \in 1..N :
              LET n   == cleaned_text_chars[i]
                  s   == [j \in 1..Len(n) |-> CHAR_INDICES[n[j]]]
                  row == x.data[i]
                  pad == Cardinality(legal_characters)
              IN  /\ DOMAIN row = 1..L
                  /\ Len(s) = L => row = s
                  /\ Len(s) > L =>
                        \A j \in 1..L : row[j] = s[Len(s) - L + j]
                  /\ Len(s) < L =>
                        /\ \A j \in 1..(L - Len(s)) : row[j] = pad
                        /\ \A j \in 1..Len(s) : row[L - Len(s) + j] = s[j]
                  /\ \A k \in DOMAIN INDICES_CHAR : k < pad
                  /\ pad - 1 \in DOMAIN INDICES_CHAR

\* one batch with a truncated row and a padded row
C2_Witness ==
    /\ status = "returned"
    /\ \E i \in 1..N : Len(cleaned_text_chars[i]) > L
    /\ \E i \in 1..N : Len(cleaned_text_chars[i]) < L

\* C3: the last element of every row of x decodes to '>' and is never the
\* padding value, also when the cleaned text is longer than L.
C3_TailSentinelKept ==
    status = "returned" =>
        \A i \in 1..N :
            LET last == x.data[i][L]
            IN  /\ last \in DOMAIN INDICES_CHAR
                /\ INDICES_CHAR[last] = 62
                /\ last # Cardinality(legal_characters)

\* a cleaned text longer than L has been truncated
C3_Witness ==
    /\ status = "returned"
    /\ \E i \in 1..N : Len(cleaned_text_chars[i]) > L + 1

\* C4: the body of every cleaned text has no leading space, no trailing
\* space and no two consecutive spaces, also when the raw text contains
\* '<' or '>'.
C4_NoStraySpaces ==
    status = "returned" =>
        \A i \in 1..N :
            LET b == Body(cleaned_text_chars[i])
            IN  /\ b # <<>> => b[1] # 32 /\ b[Len(b)] # 32
                /\ \A j \in 1..(Len(b) - 1) : ~(b[j] = 32 /\ b[j + 1] = 32)

\* C5: a label list whose length differs from the number of texts makes
\* the call fail instead of returning.
C5_LengthMismatchFails ==
    (status # "start" /\ ~y_list.none /\ Len(y_list.items) # N)
        => status # "returned"

\* C6: x has exactly N rows of exactly L columns, row i derived from text
\* i, and y is a boolean vector of exactly N elements in input order.
C6_FixedShape ==
    (status = "returned" /\ ~y_list.none) =>
        /\ x.shape = <<N, L>>
        /\ Len(x.data) = N
        /\ \A i \in 1..N :
              /\ Len(x.data[i]) = L
              /\ x.data[i] = PadRow(text_indices(CHAR_INDICES, Clean(uncleaned_text[i])),
                                    L, Cardinality(legal_characters))
        /\ y.ndim = 1
        /\ Len(y.data) = N
        /\ \A i \in 1..N : y.data[i] = truthy(y_list.items[i])

\* C7: the cached mappings are mutually inverse, their indices are exactly
\* 0 .. |legal_characters|-1 in increasing code-point order, and every call
\* of an accessor returns the same mapping.
C7_MutuallyInverse ==
    LET size == Cardinality(legal_characters)
    IN  /\ ~IsNone(CHAR_INDICES) =>
              /\ DOMAIN CHAR_INDICES = legal_characters
              /\ {CHAR_INDICES[c] : c \in legal_characters} = 0..(size - 1)
        /\ ~IsNone(INDICES_CHAR) =>
              /\ DOMAIN INDICES_CHAR = 0..(size - 1)
              /\ {INDICES_CHAR[i] : i \in 0..(size - 1)} = legal_characters
              /\ \A i \in 0..(size - 2) : INDICES_CHAR[i] < INDICES_CHAR[i + 1]
        /\ (~IsNone(CHAR_INDICES) /\ ~IsNone(INDICES_CHAR)) =>
              \A c \in legal_characters : INDICES_CHAR[CHAR_INDICES[c]] = c
        /\ returned.get_char_indices \subseteq {CHAR_INDICES}
        /\ returned.get_indices_char \subseteq {INDICES_CHAR}

\* both accessors have returned and a gen_x_y call has completed
C7_Witness ==
    /\ returned.get_char_indices # {}
    /\ returned.get_indices_char # {}
    /\ status = "returned"
    /\ \E t \in Threads : op[t] = "get_char_indices" /\ pc[t] = "idle"
    /\ \E t \in Threads : op[t] = "get_indices_char" /\ pc[t] = "idle"

\* C8: cleaning and index lookup never fail: the call returns, every
\* character of every cleaned text is a key of the vocabulary, and a raw
\* text with no legal character cleans to exactly '<>'.
C8_NeverFails ==
    status # "start" =>
        /\ status = "returned"
        /\ Len(cleaned_text_chars) = N
        /\ \A i \in 1..N :
              LET t == uncleaned_text[i]
                  n == cleaned_text_chars[i]
              IN  /\ \A j \in 1..Len(n) : n[j] \in DOMAIN CHAR_INDICES
                  /\ (\A j \in 1..Len(t) : t[j] \notin legal_characters)
                        => n = <<60, 62>>

\* a raw text mixing an illegal character with a letter has been encoded
C8_Witness ==
    /\ status = "returned"
    /\ \E i \in 1..N :
          /\ Contains(uncleaned_text[i], 200)
          /\ Contains(uncleaned_text[i], 65)
          /\ Contains(cleaned_text_chars[i], 97)

\* C9: in every interleaving each cached global is built and assigned at
\* most once.
C9_BuiltAtMostOnce ==
    /\ builds.CHAR_INDICES <= 1
    /\ builds.INDICES_CHAR <= 1

\* C10: cleaning an already cleaned text n turns its two sentinels into
\* spaces and wraps again, giving '< ' + collapsed body + ' >'; the result
\* differs from n whenever the body of n does not start with a space.
C10_NotIdempotent ==
    status = "returned" =>
        \A i \in 1..N :
            LET n == cleaned_text_chars[i]
                r == Clean(n)
            IN  /\ r = <<60, 32>> \o Collapse(Body(n)) \o <<32, 62>>
                /\ (Body(n) = <<>> \/ Body(n)[1] # 32) => r # n

\* a cleaned text with a letter in its body that a second cleaning alters
C10_Witness ==
    /\ status = "returned"
    /\ \E i \in 1..N :
          /\ Contains(cleaned_text_chars[i], 97)
          /\ Clean(cleaned_text_chars[i]) # cleaned_text_chars[i]

=============================================================================
